---- MODULE Spec2Model ----
(***************************************************************************)
(* Model of balance/src/subscribe.rs: subscribe_balance_udpates opens a    *)
(* bidirectional gRPC stream, sends one account filter, then spawns a ping *)
(* task (outbound half) and a decoder task (inbound half) that pushes      *)
(* BalanceUpdate values into a bounded tokio mpsc channel.                 *)
(***************************************************************************)
EXTENDS Integers, Sequences, FiniteSets, TLC

\* ---------------------------------------------------------------- bounds
MaxWatch == 2      \* longest `accounts` argument explored
MaxPings == 2      \* ping loop iterations explored
MaxMsgs == 2       \* inbound items read by the decoder
QueueCap == 1      \* capacity of mpsc::channel, scaled down from 1024 * 1024
MaxHistory == 3    \* longest address history explored
MaxTime == 2       \* block times are 1..MaxTime
MaxLimit == 2      \* page sizes are 1..MaxLimit, scaled down from 1000
MaxRequests == 3   \* getSignaturesForAddress requests explored per call
MaxHeight == 2     \* block heights are 0..MaxHeight
MaxPolls == 2      \* passes of the bundle polling loop explored
MaxSigs == 3       \* longest `signatures` argument explored
MaxBatchSize == 2  \* batch sizes are 0..MaxBatchSize
MaxBatches == 4    \* passes of the batch loop explored per call
MaxMints == 2      \* longest `mints` argument explored

\* ------------------------------------------------------------- constants
AccountLen == 165  \* spl_token::state::Account::LEN, the fixed record size

\* Addresses are 32-byte keys on the wire; two distinct ones are explored.
Pubkeys == {"ownerX", "ataY"}

SystemProgram == "11111111111111111111111111111111"
SplToken == "TokenkegQfeZyiNwAJbNbGKPFXCWuBvf9Ss623VQ5DA"
SplToken2022 == "TokenzQdBNbLqP5VEhdkAS6EPFLC1PHnBqCXEpPxuEb"
OtherProgram == "Stake11111111111111111111111111111111111111"
Owners == {SystemProgram, SplToken, SplToken2022, OtherProgram}

\* Option<T>: None is the empty sequence, Some(x) the one-element sequence.
None == <<>>
Some(x) == <<x>>

\* Pubkey::to_string: base58 text of the key (injective, a different type).
to_string(pk) == <<"base58", pk>>

\* ---------------------------------------------------- account data buffers
\* A buffer is described by its length and, when it is long enough to hold
\* the fixed record, by the fields of its first 165 bytes.  `state` is the
\* AccountState byte (0 uninitialized, 1 initialized, 2 frozen; others are
\* not a state).
EmptyData == [len |-> 0, mint |-> "-", amount |-> 0, state |-> 0]
ValidData == [len |-> AccountLen, mint |-> "mintM", amount |-> 42, state |-> 1]
ExtData == [len |-> AccountLen + 5, mint |-> "mintN", amount |-> 43, state |-> 1]
BadStateData == [len |-> AccountLen, mint |-> "mintM", amount |-> 42, state |-> 7]
Datas == {EmptyData, ValidData, ExtData, BadStateData}

\* ------------------------------------------------------- inbound messages
NoAccount == [owner |-> "-", pubkey |-> "-", lamports |-> 0, data |-> EmptyData]

RawAccount(o, pk, l, d) == [owner |-> o, pubkey |-> pk, lamports |-> l, data |-> d]

\* The account payloads explored: every owner with a buffer that holds a
\* record and one that does not, both addresses, lamports that differ from
\* every record amount.
RawAccounts ==
    {RawAccount(SystemProgram, "ownerX", 5, EmptyData),
     RawAccount(SystemProgram, "ataY", 6, ValidData),
     RawAccount(SplToken, "ataY", 5, ValidData),
     RawAccount(SplToken, "ownerX", 6, ExtData),
     RawAccount(SplToken, "ataY", 5, EmptyData),
     RawAccount(SplToken2022, "ownerX", 6, ValidData),
     RawAccount(SplToken2022, "ataY", 5, ExtData),
     RawAccount(SplToken2022, "ownerX", 6, BadStateData),
     RawAccount(OtherProgram, "ownerX", 5, ValidData),
     RawAccount(OtherProgram, "ataY", 6, EmptyData)}

PongIds == {0, 1}

MsgPing == [kind |-> "Ping", id |-> 0, account |-> NoAccount]
MsgPong(i) == [kind |-> "Pong", id |-> i, account |-> NoAccount]
MsgAccount(a) == [kind |-> "Account", id |-> 0, account |-> a]
MsgAccountNone == [kind |-> "AccountNone", id |-> 0, account |-> NoAccount]
MsgOther == [kind |-> "Other", id |-> 0, account |-> NoAccount]
MsgEmptyOneof == [kind |-> "EmptyOneof", id |-> 0, account |-> NoAccount]
MsgReadError == [kind |-> "ReadError", id |-> 0, account |-> NoAccount]

Inbound ==
    {MsgPing, MsgAccountNone, MsgOther, MsgEmptyOneof, MsgReadError}
        \cup {MsgPong(i) : i \in PongIds}
        \cup {MsgAccount(a) : a \in RawAccounts}

\* ------------------------------------------------------ outbound messages
RECURSIVE Dedup(_)
Dedup(s) ==
    IF s = <<>> THEN <<>>
    ELSE LET front == Dedup(SubSeq(s, 1, Len(s) - 1)) IN
         IF \E k \in 1..(Len(s) - 1) : s[k] = s[Len(s)]
            THEN front ELSE Append(front, s[Len(s)])

\* Variant: the addresses collected into a set-like list, duplicates lost.
FilterAccountsDedup(accs) ==
    [k \in 1..Len(Dedup(accs)) |-> to_string(Dedup(accs)[k])]

\* SubscribeRequestFilterAccounts.account: the argument mapped through
\* to_string, in order, duplicates kept.
FilterAccounts(accs) == [k \in 1..Len(accs) |-> to_string(accs[k])]

FilterRequest(accs) ==
    [type |-> "filter", label |-> "client", account |-> FilterAccounts(accs),
     commitment |-> "Processed", id |-> 0]

PingRequest(i) ==
    [type |-> "ping", label |-> "-", account |-> <<>>, commitment |-> "-", id |-> i]

\* Variant: the counter is never advanced.
NextPingIdStuck(i) == i

\* id += 1
NextPingId(i) == i + 1

VARIABLES
    owner,      \* the `owner` argument of subscribe_balance_udpates_by_owner
    mints,      \* its `mints` argument: pairs (mint, is_token_2022)
    accounts,   \* the `accounts` argument (the watch set)
    call,       \* position of subscribe_balance_udpates: connect, send_filter, ok, err
    open,       \* the transport is still connected
    outbound,   \* requests accepted by subscribe_tx, in order
    id,         \* the ping task's counter
    pingTask,   \* "none" before the spawn, then "loop"
    pingErrors, \* number of "could not send ping" errors logged
    decTask,    \* decoder task: none, read, push, ended, err_stream, err_protocol, panicked
    pending,    \* the BalanceUpdate being pushed (Option)
    received,   \* items stream.next() has yielded, in order
    queue,      \* content of the mpsc channel
    rxAlive,    \* the Receiver handed to the caller has not been dropped
    consumed,   \* values the consumer has read from the Receiver, in order
    rxEnded,    \* the consumer has read None (end of stream) from the Receiver
    pushErrors, \* number of "send error" errors logged by the decoder
    elapsed,    \* seconds since the ping task created its interval timer
    \* get_signatures_since_time
    history,              \* the target's signatures on chain, newest first
    since_timestamp_sec,  \* argument
    limit,                \* config.limit, the page size
    ignore_failed,        \* config.ignore_failed
    signatures,           \* the local Vec, then the returned value
    rpcLog,               \* requests issued so far: [before, page], in order
    sigState,             \* idle, first, loop, done, err
    \* get_transactions_from_signatures
    txSignatures,         \* the `signatures` argument
    batch_size,           \* config.batch_size
    current_idx_min,      \* as in the code (0-based, inclusive)
    current_idx_max,      \* as in the code (0-based, exclusive)
    transactions,         \* the local Vec, then the returned value
    batches,              \* index ranges requested so far, in order
    inflight,             \* indices of the batch whose request is not finished
    fetched,              \* outcome of the finished requests of the batch
    txState,              \* idle, loop, join, done
    \* JitoClient::confirm_bundle_id
    last_valid_block_height,  \* argument
    block_height,             \* height of the chain
    retry_count,              \* of get_bundle_status_with_retry
    attempts,                 \* HTTP requests made by the current call of it
    lastResponse,             \* the status response body handled last
    polls,                    \* passes of the polling loop started
    bundleState,              \* idle, height, status, parse, sleep, ok, err, panicked
    exitCause                 \* what ended the polling loop

signaturesVars == <<history, since_timestamp_sec, limit, ignore_failed,
                    signatures, rpcLog, sigState>>

transactionsVars == <<txSignatures, batch_size, current_idx_min, current_idx_max,
                      transactions, batches, inflight, fetched, txState>>

bundleVars == <<last_valid_block_height, block_height, retry_count, attempts,
                lastResponse, polls, bundleState, exitCause>>

utilVars == <<signaturesVars, transactionsVars, bundleVars>>

subscribeVars == <<owner, mints, accounts, call, open, outbound, id, pingTask, pingErrors,
                   decTask, pending, received, queue, rxAlive, consumed,
                   rxEnded, pushErrors>>

vars == <<subscribeVars, elapsed, utilVars>>

SeqsUpTo(S, n) == UNION {[1..k -> S] : k \in 0..n}

Terminated == {"ended", "err_stream", "err_protocol", "panicked"}

Last(s) == s[Len(s)]

\* --------------------------------------------------------- account decode
\* Variant: the unpack that also insists on the exact record length.
UnpackExactLen(data) ==
    IF data.len # AccountLen THEN [ok |-> FALSE, mint |-> "-", amount |-> 0]
    ELSE IF data.state \notin {0, 1, 2} THEN [ok |-> FALSE, mint |-> "-", amount |-> 0]
    ELSE [ok |-> TRUE, mint |-> data.mint, amount |-> data.amount]

\* Account::unpack_from_slice: takes the first 165 bytes (a shorter slice
\* panics), fails on a state byte that is no AccountState, ignores the rest.
UnpackFromSlice(data) ==
    IF data.len < AccountLen THEN [ok |-> FALSE, mint |-> "-", amount |-> 0]
    ELSE IF data.state \notin {0, 1, 2} THEN [ok |-> FALSE, mint |-> "-", amount |-> 0]
    ELSE [ok |-> TRUE, mint |-> data.mint, amount |-> data.amount]

\* Variant: the native amount read from the data buffer instead of lamports.
NativeBalanceUpdateFromData(account) ==
    [is_native |-> TRUE, pubkey |-> account.pubkey, mint |-> None,
     amount |-> UnpackFromSlice(account.data).amount]

NativeBalanceUpdate(account) ==
    [is_native |-> TRUE, pubkey |-> account.pubkey, mint |-> None,
     amount |-> account.lamports]

\* Variant: the token amount taken from the lamports field.
TokenBalanceUpdateLamports(account) ==
    [is_native |-> FALSE, pubkey |-> account.pubkey,
     mint |-> Some(UnpackFromSlice(account.data).mint),
     amount |-> account.lamports]

TokenBalanceUpdate(account) ==
    [is_native |-> FALSE, pubkey |-> account.pubkey,
     mint |-> Some(UnpackFromSlice(account.data).mint),
     amount |-> UnpackFromSlice(account.data).amount]

\* Variant: an unknown owner aborts the task instead of being ignored.
DecodeAccountUnknownPanics(account) ==
    IF account.owner = SystemProgram
        THEN [tag |-> "some", update |-> Some(NativeBalanceUpdate(account))]
    ELSE IF account.owner \in {SplToken, SplToken2022} /\ UnpackFromSlice(account.data).ok
        THEN [tag |-> "some", update |-> Some(TokenBalanceUpdate(account))]
    ELSE [tag |-> "panic", update |-> None]

\* The if/else chain on owner_pubkey: "some" update, "none", or "panic"
\* when the unwrap of a failed unpack aborts the task.
DecodeAccount(account) ==
    IF account.owner = SystemProgram
        THEN [tag |-> "some", update |-> Some(NativeBalanceUpdate(account))]
    ELSE IF account.owner \in {SplToken, SplToken2022}
        THEN IF UnpackFromSlice(account.data).ok
                THEN [tag |-> "some", update |-> Some(TokenBalanceUpdate(account))]
                ELSE [tag |-> "panic", update |-> None]
    ELSE [tag |-> "none", update |-> None]

\* Variant: an unexpected message kind is skipped instead of failing the task.
HandleMessageIgnoreOther(msg) ==
    CASE msg.kind = "ReadError" -> [next |-> "err_stream", update |-> None]
      [] msg.kind = "EmptyOneof" -> [next |-> "panicked", update |-> None]
      [] msg.kind = "Account" ->
            LET d == DecodeAccount(msg.account) IN
            CASE d.tag = "some" -> [next |-> "push", update |-> d.update]
              [] d.tag = "none" -> [next |-> "read", update |-> None]
              [] OTHER -> [next |-> "panicked", update |-> None]
      [] OTHER -> [next |-> "read", update |-> None]

\* Variant: the Pong arm is missing, so a Pong falls into the catch-all arm.
HandleMessagePongUnexpected(msg) ==
    CASE msg.kind = "ReadError" -> [next |-> "err_stream", update |-> None]
      [] msg.kind = "EmptyOneof" -> [next |-> "panicked", update |-> None]
      [] msg.kind \in {"Ping", "AccountNone"} -> [next |-> "read", update |-> None]
      [] msg.kind = "Account" ->
            LET d == DecodeAccount(msg.account) IN
            CASE d.tag = "some" -> [next |-> "push", update |-> d.update]
              [] d.tag = "none" -> [next |-> "read", update |-> None]
              [] OTHER -> [next |-> "panicked", update |-> None]
      [] OTHER -> [next |-> "err_protocol", update |-> None]

\* Variant: a failed read is skipped and the next item is read.
HandleMessageRetryRead(msg) ==
    CASE msg.kind = "EmptyOneof" -> [next |-> "panicked", update |-> None]
      [] msg.kind \in {"Ping", "Pong", "AccountNone", "ReadError"} ->
            [next |-> "read", update |-> None]
      [] msg.kind = "Account" ->
            LET d == DecodeAccount(msg.account) IN
            CASE d.tag = "some" -> [next |-> "push", update |-> d.update]
              [] d.tag = "none" -> [next |-> "read", update |-> None]
              [] OTHER -> [next |-> "panicked", update |-> None]
      [] OTHER -> [next |-> "err_protocol", update |-> None]

\* Variant: a message without update payload is skipped.
HandleMessageEmptyIgnored(msg) ==
    CASE msg.kind = "ReadError" -> [next |-> "err_stream", update |-> None]
      [] msg.kind \in {"Ping", "Pong", "AccountNone", "EmptyOneof"} ->
            [next |-> "read", update |-> None]
      [] msg.kind = "Account" ->
            LET d == DecodeAccount(msg.account) IN
            CASE d.tag = "some" -> [next |-> "push", update |-> d.update]
              [] d.tag = "none" -> [next |-> "read", update |-> None]
              [] OTHER -> [next |-> "panicked", update |-> None]
      [] OTHER -> [next |-> "err_protocol", update |-> None]

\* The body of the while loop up to the queue push: the task state it leads
\* to and the update to push.
HandleMessage(msg) ==
    CASE msg.kind = "ReadError" -> [next |-> "err_stream", update |-> None]
      [] msg.kind = "EmptyOneof" -> [next |-> "panicked", update |-> None]
      [] msg.kind \in {"Ping", "Pong", "AccountNone"} -> [next |-> "read", update |-> None]
      [] msg.kind = "Account" ->
            LET d == DecodeAccount(msg.account) IN
            CASE d.tag = "some" -> [next |-> "push", update |-> d.update]
              [] d.tag = "none" -> [next |-> "read", update |-> None]
              [] OTHER -> [next |-> "panicked", update |-> None]
      [] OTHER -> [next |-> "err_protocol", update |-> None]

\* ------------------------------------------------------------------- Init
\* get_signatures_since_time has not been called.
SignaturesIdle ==
    /\ history = <<>>
    /\ since_timestamp_sec = 0
    /\ limit = 1
    /\ ignore_failed = FALSE
    /\ signatures = <<>>
    /\ rpcLog = <<>>
    /\ sigState = "idle"

\* get_transactions_from_signatures has not been called.
TransactionsIdle ==
    /\ txSignatures = <<>>
    /\ batch_size = 1
    /\ current_idx_min = 0
    /\ current_idx_max = 0
    /\ transactions = <<>>
    /\ batches = <<>>
    /\ inflight = {}
    /\ fetched = <<>>
    /\ txState = "idle"

\* confirm_bundle_id has not been called.
BundleIdle ==
    /\ last_valid_block_height = 0
    /\ block_height = 0
    /\ retry_count = 0
    /\ attempts = 0
    /\ lastResponse = "-"
    /\ polls = 0
    /\ bundleState = "idle"
    /\ exitCause = "-"

Init ==
    /\ owner = "-"
    /\ mints = <<>>
    /\ accounts \in SeqsUpTo(Pubkeys, MaxWatch)
    /\ call = "connect"
    /\ open = TRUE
    /\ outbound = <<>>
    /\ id = 0
    /\ pingTask = "none"
    /\ pingErrors = 0
    /\ decTask = "none"
    /\ pending = None
    /\ received = <<>>
    /\ queue = <<>>
    /\ rxAlive = TRUE
    /\ consumed = <<>>
    /\ rxEnded = FALSE
    /\ pushErrors = 0
    /\ elapsed = 0
    /\ SignaturesIdle
    /\ TransactionsIdle
    /\ BundleIdle

\* Outcomes of a send on subscribe_tx, a Sink whose send returns a Result:
\* it can succeed only while connected, and it may fail at any time.
SendOutcomes == IF open THEN BOOLEAN ELSE {FALSE}

\* build_from_shared(..)?.x_token(..)?.tls_config(..)?.connect().await? and
\* client.subscribe().await?
Connect ==
    /\ call = "connect"
    /\ \E ok \in BOOLEAN :
        /\ call' = IF ok THEN "send_filter" ELSE "err"
        /\ open' = ok
    /\ UNCHANGED <<accounts, outbound, id, pingTask, pingErrors, decTask, pending,
                   received, queue, rxAlive, consumed,
                   rxEnded, pushErrors>>
    /\ UNCHANGED <<owner, mints, elapsed, utilVars>>

\* Variant: the two tasks are spawned before the filter is sent.
SendFilterSpawnsFirst ==
    /\ call = "send_filter"
    /\ pingTask' = "loop"
    /\ decTask' = "read"
    /\ \E ok \in SendOutcomes :
        IF ok
        THEN /\ outbound' = Append(outbound, FilterRequest(accounts))
             /\ call' = "ok"
        ELSE /\ call' = "err"
             /\ UNCHANGED outbound
    /\ UNCHANGED <<accounts, open, id, pingErrors, pending, received, queue,
                   rxAlive, consumed, rxEnded, pushErrors>>
    /\ UNCHANGED <<owner, mints, elapsed, utilVars>>

\* subscribe_tx.send(filter).await?, then channel creation, the two spawns
\* and Ok(rx).
SendFilter ==
    /\ call = "send_filter"
    /\ \E ok \in SendOutcomes :
        IF ok
        THEN /\ outbound' = Append(outbound, FilterRequest(accounts))
             /\ call' = "ok"
             /\ pingTask' = "loop"
             /\ decTask' = "read"
        ELSE /\ call' = "err"
             /\ UNCHANGED <<outbound, pingTask, decTask>>
    /\ UNCHANGED <<accounts, open, id, pingErrors, pending, received, queue,
                   rxAlive, consumed,
                   rxEnded, pushErrors>>
    /\ UNCHANGED <<owner, mints, elapsed, utilVars>>

\* Variant: a failed send is propagated and ends the loop.
PingTickStopsOnError ==
    /\ pingTask = "loop"
    /\ id < MaxPings
    /\ id' = NextPingId(id)
    /\ \E ok \in SendOutcomes :
        IF ok
        THEN /\ outbound' = Append(outbound, PingRequest(id'))
             /\ UNCHANGED <<pingErrors, pingTask>>
        ELSE /\ pingErrors' = pingErrors + 1
             /\ pingTask' = "stopped"
             /\ UNCHANGED outbound
    /\ UNCHANGED <<accounts, call, open, decTask, pending, received,
                   queue, rxAlive, consumed, rxEnded, pushErrors>>
    /\ UNCHANGED <<owner, mints, elapsed, utilVars>>

\* Variant: the loop pings only while the decoder task is alive.
PingTickWhileDecoderAlive ==
    /\ pingTask = "loop"
    /\ decTask \in {"read", "push"}
    /\ id < MaxPings
    /\ id' = NextPingId(id)
    /\ \E ok \in SendOutcomes :
        IF ok
        THEN /\ outbound' = Append(outbound, PingRequest(id'))
             /\ UNCHANGED pingErrors
        ELSE /\ pingErrors' = pingErrors + 1
             /\ UNCHANGED outbound
    /\ UNCHANGED <<accounts, call, open, pingTask, decTask, pending, received,
                   queue, rxAlive, consumed,
                   rxEnded, pushErrors>>
    /\ UNCHANGED <<owner, mints, elapsed, utilVars>>

\* One iteration of the ping loop: tick, id += 1, send, log on error.
PingTick ==
    /\ pingTask = "loop"
    /\ id < MaxPings
    /\ id' = NextPingId(id)
    /\ \E ok \in SendOutcomes :
        IF ok
        THEN /\ outbound' = Append(outbound, PingRequest(id'))
             /\ UNCHANGED pingErrors
        ELSE /\ pingErrors' = pingErrors + 1
             /\ UNCHANGED outbound
    /\ UNCHANGED <<accounts, call, open, pingTask, decTask, pending, received,
                   queue, rxAlive, consumed,
                   rxEnded, pushErrors>>
    /\ UNCHANGED <<owner, mints, elapsed, utilVars>>

\* Items the inbound stream can yield: anything while connected, only a
\* transport error once the connection is gone.
Readable == IF open THEN Inbound ELSE {MsgReadError}

\* stream.next() yields Some(message): one pass of the loop body up to the
\* await of tx.send.
DecoderRead ==
    /\ decTask = "read"
    /\ Len(received) < MaxMsgs
    /\ \E msg \in Readable :
        /\ received' = Append(received, msg)
        /\ decTask' = HandleMessage(msg).next
        /\ pending' = HandleMessage(msg).update
    /\ UNCHANGED <<accounts, call, open, outbound, id, pingTask, pingErrors,
                   queue, rxAlive, consumed,
                   rxEnded, pushErrors>>
    /\ UNCHANGED <<owner, mints, elapsed, utilVars>>

\* Variant: the end of the decoder cancels the ping task.
DecoderEndOfStreamCancelsPing ==
    /\ decTask = "read"
    /\ decTask' = "ended"
    /\ pingTask' = "stopped"
    /\ UNCHANGED <<accounts, call, open, outbound, id, pingErrors,
                   pending, received, queue, rxAlive, consumed,
                   rxEnded, pushErrors>>
    /\ UNCHANGED <<owner, mints, elapsed, utilVars>>

\* stream.next() yields None: the loop ends and the task returns Ok(()).
DecoderEndOfStream ==
    /\ decTask = "read"
    /\ decTask' = "ended"
    /\ UNCHANGED <<accounts, call, open, outbound, id, pingTask, pingErrors,
                   pending, received, queue, rxAlive, consumed,
                   rxEnded, pushErrors>>
    /\ UNCHANGED <<owner, mints, elapsed, utilVars>>

\* Variant: the value is stored twice.
EnqueueTwice(q, v) == Append(Append(q, v), v)

\* The channel takes the value at its tail.
Enqueue(q, v) == Append(q, v)

\* Variant: the channel accepts a value whatever it already holds.
HasCapacityAlways(q) == TRUE

\* A slot of the bounded channel is free.
HasCapacity(q) == Len(q) < QueueCap

\* Variant: a failed push is propagated and ends the task.
DecoderPushEscalates ==
    /\ decTask = "push"
    /\ \/ /\ rxAlive
          /\ HasCapacity(queue)
          /\ queue' = Enqueue(queue, pending[1])
          /\ decTask' = "read"
          /\ UNCHANGED pushErrors
       \/ /\ ~rxAlive
          /\ decTask' = "err_stream"
          /\ pushErrors' = pushErrors + 1
          /\ UNCHANGED queue
    /\ pending' = None
    /\ UNCHANGED <<accounts, call, open, outbound, id, pingTask, pingErrors,
                   received, rxAlive, consumed, rxEnded>>
    /\ UNCHANGED <<owner, mints, elapsed, utilVars>>

\* tx.send(balance_update).await: waits for a free slot while the receiver
\* lives, fails (logged) once the receiver is gone.
DecoderPush ==
    /\ decTask = "push"
    /\ \/ /\ rxAlive
          /\ HasCapacity(queue)
          /\ queue' = Enqueue(queue, pending[1])
          /\ UNCHANGED pushErrors
       \/ /\ ~rxAlive
          /\ pushErrors' = pushErrors + 1
          /\ UNCHANGED queue
    /\ decTask' = "read"
    /\ pending' = None
    /\ UNCHANGED <<accounts, call, open, outbound, id, pingTask, pingErrors,
                   received, rxAlive, consumed, rxEnded>>
    /\ UNCHANGED <<owner, mints, elapsed, utilVars>>

\* What the caller can observe through the returned Receiver<BalanceUpdate>:
\* the values read and whether recv has yielded None.
ConsumerView == <<consumed, rxEnded>>

\* The caller reads one value from the Receiver.
ConsumerRecv ==
    /\ call = "ok"
    /\ rxAlive
    /\ queue # <<>>
    /\ consumed' = Append(consumed, Head(queue))
    /\ queue' = Tail(queue)
    /\ UNCHANGED <<accounts, call, open, outbound, id, pingTask, pingErrors,
                   decTask, pending, received, rxAlive,
                   rxEnded, pushErrors>>
    /\ UNCHANGED <<owner, mints, elapsed, utilVars>>

\* Variant: a task that aborted keeps its Sender alive.
TxDroppedUnlessAborted == decTask \in {"ended", "err_stream", "err_protocol"}

\* The Sender moved into the decoder task is dropped when the task ends, by
\* return or by unwinding.
TxDropped == decTask \in Terminated

\* The caller reads from the Receiver of an empty channel whose Sender is
\* gone: recv yields None.
ConsumerRecvEnd ==
    /\ call = "ok"
    /\ rxAlive
    /\ queue = <<>>
    /\ TxDropped
    /\ rxEnded' = TRUE
    /\ UNCHANGED <<accounts, call, open, outbound, id, pingTask, pingErrors,
                   decTask, pending, received, queue, rxAlive, consumed,
                   pushErrors>>
    /\ UNCHANGED <<owner, mints, elapsed, utilVars>>

\* The caller drops the Receiver; buffered values are discarded.
ConsumerDrop ==
    /\ call = "ok"
    /\ rxAlive
    /\ rxAlive' = FALSE
    /\ queue' = <<>>
    /\ UNCHANGED <<accounts, call, open, outbound, id, pingTask, pingErrors,
                   decTask, pending, received, consumed,
                   rxEnded, pushErrors>>
    /\ UNCHANGED <<owner, mints, elapsed, utilVars>>

\* The connection is lost or closed by the peer.
CloseTransport ==
    /\ call \in {"send_filter", "ok"}
    /\ open
    /\ open' = FALSE
    /\ UNCHANGED <<accounts, call, outbound, id, pingTask, pingErrors, decTask,
                   pending, received, queue, rxAlive, consumed,
                   rxEnded, pushErrors>>
    /\ UNCHANGED <<owner, mints, elapsed, utilVars>>

Next ==
    \/ Connect
    \/ SendFilter
    \/ PingTick
    \/ DecoderRead
    \/ DecoderEndOfStream
    \/ DecoderPush
    \/ ConsumerRecv
    \/ ConsumerRecvEnd
    \/ ConsumerDrop
    \/ CloseTransport

Spec == Init /\ [][Next]_vars

\* ------------------------------------------------ the ping task's timer
\* interval(Duration::from_secs(3)), in seconds.
PingInterval == 3

\* Variant: the first tick completes one period after the timer was made.
NextTickAtAfterPeriod(i) == PingInterval * (i + 1)

\* When timer.tick() completes after i ticks have been served: the first
\* tick at once, the k-th tick (k - 1) periods after the timer was made.
NextTickAt(i) == PingInterval * i

\* timer.tick().await completes, then the body of the loop runs.
IntervalTick ==
    /\ elapsed = NextTickAt(id)
    /\ PingTick

\* One second passes while the ping task waits for its next tick.
ClockAdvance ==
    /\ pingTask = "loop"
    /\ elapsed < NextTickAt(id)
    /\ elapsed' = elapsed + 1
    /\ UNCHANGED <<subscribeVars, utilVars>>

TimedNext ==
    \/ Connect
    \/ SendFilter
    \/ IntervalTick
    \/ ClockAdvance
    \/ DecoderRead
    \/ DecoderEndOfStream
    \/ DecoderPush
    \/ ConsumerRecv
    \/ ConsumerRecvEnd
    \/ ConsumerDrop
    \/ CloseTransport

TimedSpec == Init /\ [][TimedNext]_vars

TypeOK ==
    /\ call \in {"by_owner", "connect", "send_filter", "ok", "err", "join",
               "panicked"}
    /\ decTask \in {"none", "read", "push", "dropped"} \cup Terminated
    /\ Len(queue) <= QueueCap
    /\ id \in 0..MaxPings

\* ------------------------------------------- get_signatures_since_time
\* subscribe_balance_udpates has not been called.
SubscribeIdle ==
    /\ owner = "-"
    /\ mints = <<>>
    /\ accounts = <<>>
    /\ call = "connect"
    /\ open = TRUE
    /\ outbound = <<>>
    /\ id = 0
    /\ pingTask = "none"
    /\ pingErrors = 0
    /\ decTask = "none"
    /\ pending = None
    /\ received = <<>>
    /\ queue = <<>>
    /\ rxAlive = TRUE
    /\ consumed = <<>>
    /\ rxEnded = FALSE
    /\ pushErrors = 0
    /\ elapsed = 0

\* Address histories as the RPC node serves them: newest first, so block
\* times never increase; every entry has a block time; `err` tells whether
\* the transaction failed. A signature is named by its place in the history.
Histories ==
    {[i \in 1..Len(h) |-> [signature |-> i, block_time |-> h[i].block_time,
                           err |-> h[i].err]] :
        h \in {g \in SeqsUpTo([block_time : 1..MaxTime, err : BOOLEAN], MaxHistory) :
                 \A i \in 1..(Len(g) - 1) : g[i].block_time >= g[i + 1].block_time}}

Min(a, b) == IF a <= b THEN a ELSE b

\* Place of a signature in a history.
IndexOf(h, sig) == CHOOSE i \in 1..Len(h) : h[i].signature = sig

\* Variant: the page starts at the `before` signature itself.
PageFrom(h, before, lim) ==
    LET start == IF before = None THEN 1 ELSE IndexOf(h, before[1])
    IN  SubSeq(h, start, Min(start + lim - 1, Len(h)))

\* getSignaturesForAddress(before, limit): the entries strictly older than
\* `before` (from the newest when there is none), newest first, at most
\* `limit` of them.
PageAfter(h, before, lim) ==
    LET start == IF before = None THEN 1 ELSE IndexOf(h, before[1]) + 1
    IN  SubSeq(h, start, Min(start + lim - 1, Len(h)))

\* The two retain calls.
Retain(sigs, since, ignore) ==
    SelectSeq(sigs, LAMBDA e : e.block_time >= since /\ (ignore => ~e.err))

SignaturesInit ==
    /\ SubscribeIdle
    /\ TransactionsIdle
    /\ BundleIdle
    /\ history \in Histories
    /\ since_timestamp_sec \in 0..(MaxTime + 1)
    /\ limit \in 1..MaxLimit
    /\ ignore_failed \in BOOLEAN
    /\ signatures = <<>>
    /\ rpcLog = <<>>
    /\ sigState = "first"

\* The first request, `.await?`, the is_empty return and the first
\* oldest_signature.
SigFirstPage ==
    /\ sigState = "first"
    /\ \E ok \in BOOLEAN :
        IF ok
        THEN LET page == PageAfter(history, None, limit)
             IN  /\ rpcLog' = Append(rpcLog, [before |-> None, page |-> page])
                 /\ signatures' = page
                 /\ sigState' = IF page = <<>> THEN "done" ELSE "loop"
        ELSE /\ sigState' = "err"
             /\ UNCHANGED <<signatures, rpcLog>>
    /\ UNCHANGED <<history, since_timestamp_sec, limit, ignore_failed>>
    /\ UNCHANGED <<subscribeVars, elapsed, transactionsVars, bundleVars>>

\* One pass of the while loop: oldest_blocktime > since_timestamp_sec, the
\* request before the oldest signature, `.await?`, extend.
SigNextPage ==
    /\ sigState = "loop"
    /\ Last(signatures).block_time > since_timestamp_sec
    /\ Len(rpcLog) < MaxRequests
    /\ \E ok \in BOOLEAN :
        IF ok
        THEN LET before == Some(Last(signatures).signature)
                 page == PageAfter(history, before, limit)
             IN  /\ rpcLog' = Append(rpcLog, [before |-> before, page |-> page])
                 /\ signatures' = signatures \o page
                 /\ UNCHANGED sigState
        ELSE /\ sigState' = "err"
             /\ UNCHANGED <<signatures, rpcLog>>
    /\ UNCHANGED <<history, since_timestamp_sec, limit, ignore_failed>>
    /\ UNCHANGED <<subscribeVars, elapsed, transactionsVars, bundleVars>>

\* The loop condition is false: the retain calls and Ok(signatures).
SigReturn ==
    /\ sigState = "loop"
    /\ ~(Last(signatures).block_time > since_timestamp_sec)
    /\ signatures' = Retain(signatures, since_timestamp_sec, ignore_failed)
    /\ sigState' = "done"
    /\ UNCHANGED <<history, since_timestamp_sec, limit, ignore_failed, rpcLog>>
    /\ UNCHANGED <<subscribeVars, elapsed, transactionsVars, bundleVars>>

SignaturesNext ==
    \/ SigFirstPage
    \/ SigNextPage
    \/ SigReturn

SignaturesSpec == SignaturesInit /\ [][SignaturesNext]_vars


\* ------------------------------------------ JitoClient::confirm_bundle_id
\* What the body returned by getInflightBundleStatuses can be: not JSON of
\* the expected shape, a response with an error object, a response with
\* neither error nor result, a result whose value is empty, or a result
\* whose first value carries a status string.
StatusResponses ==
    {"unparsable", "error", "no_result", "empty_value",
     "Invalid", "Pending", "Failed", "Landed", "Unknown"}

\* Variant: the retry loop bails one failure later.
RetryLimitFour == 3 + 1

\* Number of requests get_bundle_status_with_retry makes before it gives
\* up: retry_count starts at 1 and the loop bails when it reaches 3.
RetryLimit == 3

BundleInit ==
    /\ SubscribeIdle
    /\ SignaturesIdle
    /\ TransactionsIdle
    /\ last_valid_block_height \in 0..MaxHeight
    /\ block_height \in 0..MaxHeight
    /\ retry_count = 0
    /\ attempts = 0
    /\ lastResponse = "-"
    /\ polls = 0
    /\ bundleState = "height"
    /\ exitCause = "-"

BundleRest == <<subscribeVars, elapsed, signaturesVars, transactionsVars>>

\* The chain grows while the bundle is polled.
ProduceBlock ==
    /\ bundleState \in {"height", "status", "retry_sleep", "parse", "sleep"}
    /\ block_height < MaxHeight
    /\ block_height' = block_height + 1
    /\ UNCHANGED <<last_valid_block_height, retry_count, attempts, lastResponse,
                   polls, bundleState, exitCause>>
    /\ UNCHANGED BundleRest

\* Variant: the bundle expires as soon as the height reaches the last
\* valid one.
GetBlockHeightExpiresAtEqual ==
    /\ bundleState = "height"
    /\ polls < MaxPolls \/ block_height > last_valid_block_height
    /\ polls' = polls + 1
    /\ \E ok \in BOOLEAN :
        IF ~ok
        THEN /\ bundleState' = "err"
             /\ exitCause' = "height_request_failed"
             /\ UNCHANGED <<retry_count, attempts>>
        ELSE IF block_height >= last_valid_block_height
        THEN /\ bundleState' = "err"
             /\ exitCause' = "expired"
             /\ UNCHANGED <<retry_count, attempts>>
        ELSE /\ bundleState' = "status"
             /\ retry_count' = 1
             /\ attempts' = 0
             /\ UNCHANGED exitCause
    /\ UNCHANGED <<last_valid_block_height, block_height, lastResponse>>
    /\ UNCHANGED BundleRest

\* Top of the loop: get_block_height().await.map_err(..)? and the expiry
\* test; then get_bundle_status_with_retry starts with retry_count = 1.
\* Passes are explored up to MaxPolls, and beyond it only when the bundle
\* has expired, since such a pass ends the call.
GetBlockHeight ==
    /\ bundleState = "height"
    /\ polls < MaxPolls \/ block_height > last_valid_block_height
    /\ polls' = polls + 1
    /\ \E ok \in BOOLEAN :
        IF ~ok
        THEN /\ bundleState' = "err"
             /\ exitCause' = "height_request_failed"
             /\ UNCHANGED <<retry_count, attempts>>
        ELSE IF block_height > last_valid_block_height
        THEN /\ bundleState' = "err"
             /\ exitCause' = "expired"
             /\ UNCHANGED <<retry_count, attempts>>
        ELSE /\ bundleState' = "status"
             /\ retry_count' = 1
             /\ attempts' = 0
             /\ UNCHANGED exitCause
    /\ UNCHANGED <<last_valid_block_height, block_height, lastResponse>>
    /\ UNCHANGED BundleRest

\* One pass of the loop of get_bundle_status_with_retry: the POST and
\* res.text(), returning the body on success; on failure retry_count += 1,
\* the bail at 3, else the sleep before the next pass.
StatusRequest ==
    /\ bundleState = "status"
    /\ attempts' = attempts + 1
    /\ \E ok \in BOOLEAN :
        IF ok
        THEN /\ bundleState' = "parse"
             /\ UNCHANGED <<retry_count, exitCause>>
        ELSE /\ retry_count' = retry_count + 1
             /\ IF retry_count' = RetryLimit
                THEN /\ bundleState' = "err"
                     /\ exitCause' = "status_request_failed"
                ELSE /\ bundleState' = "retry_sleep"
                     /\ UNCHANGED exitCause
    /\ UNCHANGED <<last_valid_block_height, block_height, lastResponse, polls>>
    /\ UNCHANGED BundleRest

\* tokio::time::sleep(Duration::from_secs(3)).await of the retry loop.
RetrySleep ==
    /\ bundleState = "retry_sleep"
    /\ bundleState' = "status"
    /\ UNCHANGED <<last_valid_block_height, block_height, retry_count, attempts,
                   lastResponse, polls, exitCause>>
    /\ UNCHANGED BundleRest

\* The match on the response body: serde_json::from_str, the error object
\* (logged, break, and the Ok(()) after the loop), the two unwraps, and the
\* match on the status string.
StatusOutcome(r) ==
    CASE r = "unparsable"  -> [state |-> "err", cause |-> "unparsable"]
      [] r = "error"       -> [state |-> "ok", cause |-> "error_object"]
      [] r = "no_result"   -> [state |-> "panicked", cause |-> "no_result"]
      [] r = "empty_value" -> [state |-> "panicked", cause |-> "empty_value"]
      [] r = "Invalid"     -> [state |-> "sleep", cause |-> "-"]
      [] r = "Pending"     -> [state |-> "sleep", cause |-> "-"]
      [] r = "Failed"      -> [state |-> "err", cause |-> "failed"]
      [] r = "Landed"      -> [state |-> "ok", cause |-> "landed"]
      [] OTHER             -> [state |-> "err", cause |-> "unrecognized"]

\* The body of the status response is handled.
HandleStatus ==
    /\ bundleState = "parse"
    /\ \E r \in StatusResponses :
        /\ lastResponse' = r
        /\ bundleState' = StatusOutcome(r).state
        /\ exitCause' = StatusOutcome(r).cause
    /\ UNCHANGED <<last_valid_block_height, block_height, retry_count, attempts,
                   polls>>
    /\ UNCHANGED BundleRest

\* tokio::time::sleep(poll_period).await, then the next pass.
PollSleep ==
    /\ bundleState = "sleep"
    /\ bundleState' = "height"
    /\ UNCHANGED <<last_valid_block_height, block_height, retry_count, attempts,
                   lastResponse, polls, exitCause>>
    /\ UNCHANGED BundleRest

BundleNext ==
    \/ ProduceBlock
    \/ GetBlockHeight
    \/ StatusRequest
    \/ RetrySleep
    \/ HandleStatus
    \/ PollSleep

BundleSpec == BundleInit /\ [][BundleNext]_vars

\* The runtime keeps polling the future of confirm_bundle_id: a request
\* that can be made, a response that can be handled and a sleep that can
\* end do so eventually (the HTTP client has a timeout of 10 s). Nothing is
\* assumed of the chain.
BundleFairSpec ==
    /\ BundleSpec
    /\ WF_vars(GetBlockHeight)
    /\ WF_vars(StatusRequest)
    /\ WF_vars(RetrySleep)
    /\ WF_vars(HandleStatus)
    /\ WF_vars(PollSleep)


\* ------------------------------------- get_transactions_from_signatures
Sigs == {"sigA", "sigB"}

\* The transaction get_transaction_with_config returns for a signature.
TxOf(sig) == <<"tx", sig>>

\* The for loop over join_all's results for the 0-based indices lo..hi-1:
\* results come in the order of the requests; Ok is pushed, Err is logged.
RECURSIVE OkTxs(_, _, _, _)
OkTxs(sigs, f, lo, hi) ==
    IF lo >= hi THEN <<>>
    ELSE (IF f[lo] THEN <<TxOf(sigs[lo + 1])>> ELSE <<>>)
            \o OkTxs(sigs, f, lo + 1, hi)

TransactionsInit ==
    /\ SubscribeIdle
    /\ SignaturesIdle
    /\ BundleIdle
    /\ txSignatures \in SeqsUpTo(Sigs, MaxSigs)
    /\ batch_size \in 0..MaxBatchSize
    /\ current_idx_min = 0
    /\ current_idx_max = Min(batch_size, Len(txSignatures))
    /\ transactions = <<>>
    /\ batches = <<>>
    /\ inflight = {}
    /\ fetched = <<>>
    /\ txState = "loop"

TransactionsRest == <<subscribeVars, elapsed, signaturesVars, bundleVars>>

\* Top of the while loop (its condition current_idx_max <= n), the slice of
\* the batch and one request per signature of it, all handed to join_all.
TxStartBatch ==
    /\ txState = "loop"
    /\ current_idx_max <= Len(txSignatures)
    /\ Len(batches) < MaxBatches
    /\ batches' = Append(batches, [lo |-> current_idx_min, hi |-> current_idx_max])
    /\ inflight' = current_idx_min..(current_idx_max - 1)
    /\ txState' = "join"
    /\ UNCHANGED <<txSignatures, batch_size, current_idx_min, current_idx_max,
                   transactions, fetched>>
    /\ UNCHANGED TransactionsRest

\* One request of the batch finishes, with a transaction or with an error;
\* the requests of a batch finish in any order.
TxFetchDone ==
    /\ txState = "join"
    /\ \E i \in inflight, ok \in BOOLEAN :
        /\ inflight' = inflight \ {i}
        /\ fetched' = [j \in (DOMAIN fetched) \cup {i} |->
                            IF j = i THEN ok ELSE fetched[j]]
    /\ UNCHANGED <<txSignatures, batch_size, current_idx_min, current_idx_max,
                   transactions, batches, txState>>
    /\ UNCHANGED TransactionsRest

\* join_all completes: the for loop over the results, the break when
\* current_idx_max == n, else the two index updates.
TxJoinAll ==
    /\ txState = "join"
    /\ inflight = {}
    /\ transactions' = transactions
            \o OkTxs(txSignatures, fetched, current_idx_min, current_idx_max)
    /\ IF current_idx_max = Len(txSignatures)
       THEN /\ txState' = "done"
            /\ UNCHANGED <<current_idx_min, current_idx_max>>
       ELSE /\ txState' = "loop"
            /\ current_idx_min' = current_idx_max
            /\ current_idx_max' = Min(current_idx_max + batch_size, Len(txSignatures))
    /\ UNCHANGED <<txSignatures, batch_size, batches, inflight, fetched>>
    /\ UNCHANGED TransactionsRest

TransactionsNext ==
    \/ TxStartBatch
    \/ TxFetchDone
    \/ TxJoinAll

TransactionsSpec == TransactionsInit /\ [][TransactionsNext]_vars

\* ------------------------------------ subscribe_balance_udpates_by_owner
Wallets == {"ownerX"}
Mints == {"mintM", "mintN"}
MintEntries == Mints \X BOOLEAN

\* get_associated_token_address_with_program_id: the program-derived
\* address of the seeds (wallet, token program id, mint), named here by
\* its seeds.
AssociatedTokenAddress(wallet, mint, program_id) ==
    <<"ata", wallet, program_id, mint>>

\* Variant: every address is derived with the original token program.
MintToAssociatedTokenAccountLegacy(ow, mint, is_token_2022) ==
    AssociatedTokenAddress(ow, mint, SplToken)

MintToAssociatedTokenAccount(ow, mint, is_token_2022) ==
    LET program_id == IF is_token_2022 THEN SplToken2022 ELSE SplToken
    IN  AssociatedTokenAddress(ow, mint, program_id)

\* mints.into_iter().map(..).collect(): one address per entry, in order.
MintsToAssociatedTokenAccounts(ow, ms) ==
    [k \in 1..Len(ms) |-> MintToAssociatedTokenAccount(ow, ms[k][1], ms[k][2])]

ByOwnerInit ==
    /\ owner \in Wallets
    /\ mints \in SeqsUpTo(MintEntries, MaxMints)
    /\ accounts = <<>>
    /\ call = "by_owner"
    /\ open = TRUE
    /\ outbound = <<>>
    /\ id = 0
    /\ pingTask = "none"
    /\ pingErrors = 0
    /\ decTask = "none"
    /\ pending = None
    /\ received = <<>>
    /\ queue = <<>>
    /\ rxAlive = TRUE
    /\ consumed = <<>>
    /\ rxEnded = FALSE
    /\ pushErrors = 0
    /\ elapsed = 0
    /\ SignaturesIdle
    /\ TransactionsIdle
    /\ BundleIdle

\* vec![owner.clone()], extend(ata_accounts), then the call of
\* subscribe_balance_udpates with the list.
BuildWatchSet ==
    /\ call = "by_owner"
    /\ accounts' = <<owner>> \o MintsToAssociatedTokenAccounts(owner, mints)
    /\ call' = "connect"
    /\ UNCHANGED <<owner, mints, open, outbound, id, pingTask, pingErrors,
                   decTask, pending, received, queue, rxAlive, consumed,
                   rxEnded, pushErrors>>
    /\ UNCHANGED <<elapsed, utilVars>>

ByOwnerNext ==
    \/ BuildWatchSet
    \/ Connect
    \/ SendFilter
    \/ CloseTransport

ByOwnerSpec == ByOwnerInit /\ [][ByOwnerNext]_vars

\* ---------------------------------------------------------------------
\* C34: the by-owner subscription watches the owner address first and then
\* one derived token-account address per entry of mints, in the order of
\* mints, derived with the token-2022 program id when the entry's flag is
\* true and with the original token program id otherwise; the list has
\* 1 + Len(mints) entries, repeated entries stay, and the filter message
\* carries exactly this list.
C34_WatchSetOwnerThenMints ==
    /\ (call # "by_owner") =>
        /\ Len(accounts) = 1 + Len(mints)
        /\ accounts[1] = owner
        /\ \A k \in 1..Len(mints) :
            accounts[k + 1] =
                <<"ata", owner,
                  IF mints[k][2] THEN SplToken2022 ELSE SplToken,
                  mints[k][1]>>
    /\ (call = "by_owner") => (outbound = <<>>)
    /\ (call = "ok") => (Len(outbound) = 1)
    /\ \A j \in 1..Len(outbound) :
        /\ outbound[j].type = "filter"
        /\ Len(outbound[j].account) = 1 + Len(mints)
        /\ \A k \in 1..Len(accounts) :
            outbound[j].account[k] = <<"base58", accounts[k]>>

\* The same token-2022 mint is listed twice, the filter went out with the
\* owner and the same derived address twice.
C34_Witness ==
    /\ call = "ok"
    /\ mints = <<<<"mintM", TRUE>>, <<"mintM", TRUE>>>>
    /\ Len(outbound) = 1
    /\ Len(outbound[1].account) = 3
    /\ outbound[1].account[2] = outbound[1].account[3]

\* ------------------------------ examples/balance.rs, subscribe_account_udpates
\* The example shares the variables of the subscription: `call` is connect,
\* send_filter, join (inside try_join!), err or panicked; pingTask and
\* decTask are the two joined futures, "dropped" once try_join! has returned.

\* The connection code (lines 45-50 of the example) is that of subscribe.rs:
\* the example starts with Connect.

\* subscribe_tx.send(filter).await?, then try_join! polls both futures.
ExSendFilter ==
    /\ call = "send_filter"
    /\ \E ok \in SendOutcomes :
        IF ok
        THEN /\ outbound' = Append(outbound, FilterRequest(accounts))
             /\ call' = "join"
             /\ pingTask' = "loop"
             /\ decTask' = "read"
        ELSE /\ call' = "err"
             /\ UNCHANGED <<outbound, pingTask, decTask>>
    /\ UNCHANGED <<accounts, open, id, pingErrors, pending, received, queue,
                   rxAlive, consumed, rxEnded, pushErrors>>
    /\ UNCHANGED <<owner, mints, elapsed, utilVars>>

\* Variant: a failed ping send is logged and the loop goes on.
ExPingTickLogsOnly ==
    /\ call = "join"
    /\ pingTask = "loop"
    /\ id < MaxPings
    /\ id' = NextPingId(id)
    /\ \E ok \in SendOutcomes :
        IF ok
        THEN /\ outbound' = Append(outbound, PingRequest(id'))
             /\ UNCHANGED pingErrors
        ELSE /\ pingErrors' = pingErrors + 1
             /\ UNCHANGED outbound
    /\ UNCHANGED <<accounts, call, open, pingTask, decTask, pending, received,
                   queue, rxAlive, consumed, rxEnded, pushErrors>>
    /\ UNCHANGED <<owner, mints, elapsed, utilVars>>

\* One iteration of the ping future: tick, id += 1, send(..).await?; the
\* error ends try_join!, which drops the other future.
ExPingTick ==
    /\ call = "join"
    /\ pingTask = "loop"
    /\ id < MaxPings
    /\ id' = NextPingId(id)
    /\ \E ok \in SendOutcomes :
        IF ok
        THEN /\ outbound' = Append(outbound, PingRequest(id'))
             /\ UNCHANGED <<call, pingTask, decTask>>
        ELSE /\ call' = "err"
             /\ pingTask' = "dropped"
             /\ decTask' = "dropped"
             /\ UNCHANGED outbound
    /\ UNCHANGED <<accounts, open, pingErrors, pending, received, queue,
                   rxAlive, consumed, rxEnded, pushErrors>>
    /\ UNCHANGED <<owner, mints, elapsed, utilVars>>

\* The body of the example's while loop: it only logs. The spl_token arm
\* unwraps unpack_from_slice, the token-2022 arm does not unpack.
ExHandleMessage(msg) ==
    CASE msg.kind = "ReadError" -> "err"
      [] msg.kind = "EmptyOneof" -> "panicked"
      [] msg.kind \in {"Ping", "Pong", "AccountNone"} -> "read"
      [] msg.kind = "Account" ->
            IF msg.account.owner = SplToken /\ ~UnpackFromSlice(msg.account.data).ok
            THEN "panicked"
            ELSE "read"
      [] OTHER -> "err"

\* stream.next() yields Some(message) in the decoder future; an error or a
\* panic ends try_join! and with it the ping future.
ExDecoderRead ==
    /\ call = "join"
    /\ decTask = "read"
    /\ Len(received) < MaxMsgs
    /\ \E msg \in Readable :
        /\ received' = Append(received, msg)
        /\ IF ExHandleMessage(msg) = "read"
           THEN UNCHANGED <<call, pingTask, decTask>>
           ELSE /\ call' = ExHandleMessage(msg)
                /\ pingTask' = "dropped"
                /\ decTask' = "dropped"
    /\ UNCHANGED <<accounts, open, outbound, id, pingErrors, pending, queue,
                   rxAlive, consumed, rxEnded, pushErrors>>
    /\ UNCHANGED <<owner, mints, elapsed, utilVars>>

\* stream.next() yields None: the decoder future completes with Ok(()) and
\* try_join! waits for the ping future.
ExDecoderEndOfStream ==
    /\ call = "join"
    /\ decTask = "read"
    /\ decTask' = "ended"
    /\ UNCHANGED <<accounts, call, open, outbound, id, pingTask, pingErrors,
                   pending, received, queue, rxAlive, consumed, rxEnded,
                   pushErrors>>
    /\ UNCHANGED <<owner, mints, elapsed, utilVars>>

\* The connection is lost or closed by the peer.
ExCloseTransport ==
    /\ call \in {"send_filter", "join"}
    /\ open
    /\ open' = FALSE
    /\ UNCHANGED <<accounts, call, outbound, id, pingTask, pingErrors, decTask,
                   pending, received, queue, rxAlive, consumed, rxEnded,
                   pushErrors>>
    /\ UNCHANGED <<owner, mints, elapsed, utilVars>>

ExampleNext ==
    \/ Connect
    \/ ExSendFilter
    \/ ExPingTick
    \/ ExDecoderRead
    \/ ExDecoderEndOfStream
    \/ ExCloseTransport

ExampleSpec == Init /\ [][ExampleNext]_vars

\* =================================================================== claims

FilterIdx == {i \in DOMAIN outbound : outbound[i].type = "filter"}

\* The pings accepted by subscribe_tx, in sending order.
PingsSent == SelectSeq(outbound, LAMBDA r : r.type = "ping")

\* C1: one call sends exactly one filter message over the whole lifetime of
\* the subscription; it is the first request on the outbound channel, it
\* lists exactly the addresses of the watch set (in order, as strings), no
\* ping precedes it, and no second filter follows, whatever fails later.
C1_OneFilterFirst ==
    /\ Cardinality(FilterIdx) <= 1
    /\ (call = "ok") => (FilterIdx = {1})
    /\ (call # "ok") => (outbound = <<>>)
    /\ \A i \in FilterIdx :
          /\ Len(outbound[i].account) = Len(accounts)
          /\ \A k \in 1..Len(accounts) :
                outbound[i].account[k] = <<"base58", accounts[k]>>
    /\ \A i \in DOMAIN outbound :
          (outbound[i].type = "ping") => (i > 1 /\ outbound[1].type = "filter")

\* A two-address watch set with a repeated address, a ping sent after the
\* filter, and the decoder already failed.
C1_Witness ==
    /\ Len(accounts) = 2
    /\ accounts[1] = accounts[2]
    /\ Len(outbound) >= 2
    /\ outbound[Len(outbound)].type = "ping"
    /\ decTask \in {"err_stream", "err_protocol", "panicked"}

\* C2 as stated: the ids of the pings sent are 1, 2, 3, ... without gaps,
\* also in executions in which a ping send fails and the loop continues.
C2_NoGaps == \A k \in 1..Len(PingsSent) : PingsSent[k].id = k

\* C2 amended: the counter is advanced before every send attempt, so the
\* attempts are numbered 1, 2, 3, ...; the pings that were sent carry
\* strictly increasing ids out of 1..id, one id is missing for every failed
\* send, and without a failed send the ids are exactly 1, 2, 3, ...
C2_IdsIncreaseGapsAtFailures ==
    /\ \A k \in 1..Len(PingsSent) : PingsSent[k].id \in 1..id
    /\ \A j, k \in 1..Len(PingsSent) : (j < k) => (PingsSent[j].id < PingsSent[k].id)
    /\ Len(PingsSent) + pingErrors = id
    /\ (pingErrors = 0) => (\A k \in 1..Len(PingsSent) : PingsSent[k].id = k)

\* The first ping failed, the second was sent: the only id on the wire is 2.
C2_Witness ==
    /\ pingErrors = 1
    /\ Len(PingsSent) = 1
    /\ PingsSent[1].id = 2

IsTokenOwner(o) == o \in {SplToken, SplToken2022}

\* A buffer that holds no token-account record: too short, or its state byte
\* is no account state.
IsMalformedData(d) == d.len < AccountLen \/ d.state \notin {0, 1, 2}

JustRead(m) == received' = Append(received, m)

\* C3 as stated: a malformed token-account buffer under a token-program
\* owner is dropped: no update is emitted, the decoder does not terminate
\* and stays ready to read the next message.
C3_MalformedDropped ==
    [][\A m \in Inbound :
          (/\ JustRead(m)
           /\ m.kind = "Account"
           /\ IsTokenOwner(m.account.owner)
           /\ IsMalformedData(m.account.data))
          => (decTask' = "read" /\ pending' = None /\ queue' = queue)]_vars

\* Every step that completes the push of `pending` stores it exactly once at
\* the tail of the queue (or, with the receiver gone, stores nothing), and
\* while the push is waiting the queue only shrinks.
PushStoresPendingOnce ==
    (decTask = "push") =>
        \/ /\ decTask' = "push"
           /\ pending' = pending
           /\ Len(queue') <= Len(queue)
        \/ /\ decTask' = "read"
           /\ pending' = None
           /\ queue' = IF rxAlive THEN queue \o pending ELSE queue

\* C4: an AccountUpdate owned by the system program yields exactly one
\* BalanceUpdate with is_native = TRUE, no mint, the message's address and
\* the message's lamports, whatever the data buffer holds.
C4_NativeUpdate ==
    [][/\ \A m \in Inbound :
            (JustRead(m) /\ m.kind = "Account" /\ m.account.owner = SystemProgram)
            => /\ decTask' = "push"
               /\ pending' = <<[is_native |-> TRUE, pubkey |-> m.account.pubkey,
                                mint |-> <<>>, amount |-> m.account.lamports]>>
               /\ queue' = queue
       /\ PushStoresPendingOnce]_vars

\* A system-owned update whose data buffer holds a token record has been
\* read and its native BalanceUpdate is in the queue.
C4_Witness ==
    /\ Len(received) = 1
    /\ received[1].kind = "Account"
    /\ received[1].account.owner = SystemProgram
    /\ received[1].account.data.len > 0
    /\ decTask = "read"
    /\ queue = <<[is_native |-> TRUE, pubkey |-> received[1].account.pubkey,
                  mint |-> <<>>, amount |-> received[1].account.lamports]>>

\* C5: an AccountUpdate owned by one of the two token programs whose data
\* buffer is a fixed-layout record yields exactly one BalanceUpdate with
\* is_native = FALSE, the record's mint, the record's amount (not the
\* lamports) and the message's address.
C5_TokenUpdate ==
    [][/\ \A m \in Inbound :
            (/\ JustRead(m)
             /\ m.kind = "Account"
             /\ IsTokenOwner(m.account.owner)
             /\ m.account.data.len = AccountLen
             /\ ~IsMalformedData(m.account.data))
            => /\ decTask' = "push"
               /\ pending' = <<[is_native |-> FALSE, pubkey |-> m.account.pubkey,
                                mint |-> <<m.account.data.mint>>,
                                amount |-> m.account.data.amount]>>
               /\ queue' = queue
       /\ PushStoresPendingOnce]_vars

\* Both token programs have delivered a valid record and both updates were
\* read by the consumer, with amounts that differ from the lamports.
C5_Witness ==
    /\ Len(received) = 2
    /\ received[1].account.owner = SplToken
    /\ received[2].account.owner = SplToken2022
    /\ Len(consumed) = 2
    /\ \A k \in 1..2 :
          /\ received[k].account.data.len = AccountLen
          /\ consumed[k].amount = received[k].account.data.amount
          /\ consumed[k].amount # received[k].account.lamports
          /\ ~consumed[k].is_native

\* C6: a message of a kind other than Ping, Pong or AccountUpdate ends the
\* decoder with the protocol error; nothing is pushed for it or for anything
\* after it (the task reads nothing more and the queue never grows again),
\* and the updates already queued can still be read by the consumer.
C6_OtherTerminates ==
    /\ [][/\ \A m \in Inbound :
                (JustRead(m) /\ m.kind = "Other")
                => (decTask' = "err_protocol" /\ pending' = None /\ queue' = queue)
          /\ (decTask = "err_protocol")
                => /\ decTask' = "err_protocol"
                   /\ received' = received
                   /\ pending' = None
                   /\ Len(queue') <= Len(queue)
                   /\ ((rxAlive' /\ queue' # queue)
                        => (/\ queue' = Tail(queue)
                            /\ consumed' = Append(consumed, Head(queue))))]_vars
    /\ []((decTask = "err_protocol" /\ rxAlive /\ queue # <<>>) => ENABLED ConsumerRecv)

\* The decoder failed on an unexpected message while an update pushed
\* before it is still waiting in the queue of a live receiver.
C6_Witness ==
    /\ decTask = "err_protocol"
    /\ Len(received) = 2
    /\ received[2].kind = "Other"
    /\ rxAlive
    /\ Len(queue) = 1

\* C7: an AccountUpdate whose owner is none of the system program, the
\* token program and the token-2022 program yields no update: the decoder
\* keeps running, the queue is untouched and stays open, and the task is
\* ready for the next message.
C7_UnknownOwnerIgnored ==
    [][\A m \in Inbound :
          (/\ JustRead(m)
           /\ m.kind = "Account"
           /\ m.account.owner \notin {SystemProgram, SplToken, SplToken2022})
          => /\ decTask' = "read"
             /\ pending' = None
             /\ queue' = queue
             /\ rxAlive' = rxAlive]_vars

\* An update of an unknown owner was skipped and the next message, a
\* system-owned update, was decoded and queued.
C7_Witness ==
    /\ Len(received) = 2
    /\ received[1].kind = "Account"
    /\ received[1].account.owner = OtherProgram
    /\ received[2].kind = "Account"
    /\ received[2].account.owner = SystemProgram
    /\ Len(queue) = 1
    /\ consumed = <<>>

\* An inbound message that decodes to a BalanceUpdate, and that update.
C8_Decodes(m) ==
    /\ m.kind = "Account"
    /\ \/ m.account.owner = SystemProgram
       \/ IsTokenOwner(m.account.owner) /\ ~IsMalformedData(m.account.data)

C8_UpdateOf(m) ==
    IF m.account.owner = SystemProgram
    THEN [is_native |-> TRUE, pubkey |-> m.account.pubkey, mint |-> <<>>,
          amount |-> m.account.lamports]
    ELSE [is_native |-> FALSE, pubkey |-> m.account.pubkey,
          mint |-> <<m.account.data.mint>>, amount |-> m.account.data.amount]

RECURSIVE C8_Decoded(_)
C8_Decoded(s) ==
    IF s = <<>> THEN <<>>
    ELSE C8_Decoded(SubSeq(s, 1, Len(s) - 1))
            \o (IF C8_Decodes(s[Len(s)]) THEN <<C8_UpdateOf(s[Len(s)])>> ELSE <<>>)

IsPrefix(p, s) == Len(p) <= Len(s) /\ p = SubSeq(s, 1, Len(p))

C9_PingPongNoEffect ==
    [][\A m \in Inbound :
          (JustRead(m) /\ m.kind \in {"Ping", "Pong"})
          => /\ decTask' = "read"
             /\ pending' = None
             /\ queue' = queue
             /\ consumed' = consumed
             /\ id' = id
             /\ outbound' = outbound]_vars

\* A Pong with id 1 and a Pong with id 0 were read before any ping was
\* attempted, and the decoder is still reading.
C9_Witness ==
    /\ id = 0
    /\ received = <<MsgPong(1), MsgPong(0)>>
    /\ decTask = "read"

\* C10 as stated: the two tasks are joined, so once the decoder has
\* terminated no further ping is sent (and a failed task cancels the other).
C10_NoPingAfterDecoderEnd ==
    [][(decTask \in Terminated) => (outbound' = outbound /\ id' = id)]_vars

DecoderGone == decTask \in {"ended", "err_stream", "err_protocol", "panicked"}

\* C11: whatever ended the decoder (end of stream, read error, unexpected
\* message, abort while decoding), the sending side of the queue is closed:
\* a live consumer can always complete a read (a queued update while there
\* is one, end of stream after that), the queued updates are delivered in
\* push order, and once end of stream was read the consumer has read every
\* update the decoder produced and keeps reading end of stream.
C11_TerminationClosesQueue ==
    /\ []((DecoderGone /\ rxAlive)
            => /\ (queue # <<>>) => ENABLED ConsumerRecv
               /\ (queue = <<>>) => ENABLED ConsumerRecvEnd
               /\ consumed \o queue = C8_Decoded(received))
    /\ [](rxEnded => (DecoderGone /\ consumed = C8_Decoded(received)))
    /\ [][rxEnded => (rxEnded' /\ consumed' = consumed)]_vars

\* The decoder aborted on a malformed buffer after an update was queued, and
\* the consumer has read that update and then end of stream.
C11_Witness ==
    /\ decTask = "panicked"
    /\ Len(received) = 2
    /\ Len(consumed) = 1
    /\ rxEnded

\* C12: a failed ping send does not end the ping task: the failure is only
\* counted as a logged error, the task stays in its loop with the counter
\* advanced by one, and the next attempt can be made, after any number of
\* consecutive failures.
C12_FailedPingContinues ==
    /\ [][(pingErrors' # pingErrors)
            => /\ pingErrors' = pingErrors + 1
               /\ pingTask' = "loop"
               /\ id' = id + 1
               /\ outbound' = outbound]_vars
    /\ []((pingErrors > 0) => (pingTask = "loop"))
    /\ []((pingErrors > 0 /\ id < MaxPings) => ENABLED PingTick)

\* Two sends in a row failed on a connected transport and the task is still
\* in its loop.
C12_Witness ==
    /\ pingErrors = 2
    /\ PingsSent = <<>>
    /\ open
    /\ pingTask = "loop"

\* C13: a failed send of the ping task leaves the decoder as it is (it can
\* go on reading and pushing), and the end of the decoder, for any reason,
\* leaves the ping task in its loop.
C13_FailureIsolation ==
    /\ [][(pingErrors' # pingErrors)
            => /\ decTask' = decTask
               /\ pending' = pending
               /\ received' = received
               /\ queue' = queue]_vars
    /\ [][(~DecoderGone /\ DecoderGone')
            => /\ pingTask' = pingTask
               /\ id' = id
               /\ outbound' = outbound]_vars
    /\ []((pingErrors > 0 /\ decTask = "read" /\ Len(received) < MaxMsgs)
            => ENABLED DecoderRead)
    /\ []((pingErrors > 0 /\ decTask = "push" /\ (Len(queue) < QueueCap \/ ~rxAlive))
            => ENABLED DecoderPush)
    /\ []((DecoderGone /\ call = "ok") => (pingTask = "loop"))
    /\ []((DecoderGone /\ call = "ok" /\ id < MaxPings) => ENABLED PingTick)

\* A ping send failed, an update was decoded and read by the consumer, a
\* ping was sent, and the decoder has failed on a read error.
C13_Witness ==
    /\ pingErrors = 1
    /\ Len(PingsSent) = 1
    /\ Len(consumed) = 1
    /\ decTask = "err_stream"
    /\ pingTask = "loop"

\* C14: when the filter send fails the call returns the error at once:
\* nothing was sent, no task was spawned, no queue or receiver exists, and
\* nothing happens afterwards (no ping is ever sent, nothing is read).
C14_FilterSendFailure ==
    /\ []((call = "err")
            => /\ pingTask = "none"
               /\ decTask = "none"
               /\ outbound = <<>>
               /\ id = 0
               /\ received = <<>>
               /\ queue = <<>>
               /\ consumed = <<>>
               /\ ~rxEnded)
    /\ [][(call = "send_filter" /\ outbound' = outbound) => (call' \in {"send_filter", "err"})]_vars
    /\ [][(call = "err")
            => UNCHANGED <<call, outbound, id, pingTask, pingErrors, decTask, pending,
                           received, queue, rxAlive, consumed, rxEnded, pushErrors>>]_vars

\* The filter send failed although the transport was connected.
C14_Witness ==
    /\ call = "err"
    /\ open

\* C15: a push that fails because the consumer dropped the receiver is only
\* logged: the decoder returns to reading with nothing queued, can read the
\* next message, and a later unexpected message still ends it with the
\* protocol error.
C15_PushFailureLogged ==
    /\ [][(pushErrors' # pushErrors)
            => /\ ~rxAlive
               /\ pushErrors' = pushErrors + 1
               /\ decTask = "push"
               /\ decTask' = "read"
               /\ pending' = None
               /\ queue' = queue]_vars
    /\ [][(decTask = "push" /\ decTask' # "push" /\ ~rxAlive)
            => (decTask' = "read" /\ pushErrors' = pushErrors + 1)]_vars
    /\ []((pushErrors > 0 /\ decTask = "read" /\ Len(received) < MaxMsgs)
            => ENABLED DecoderRead)
    /\ [][\A m \in Inbound :
            (JustRead(m) /\ m.kind = "Other" /\ pushErrors > 0)
            => (decTask' = "err_protocol")]_vars

\* A push failed on a dropped receiver, the decoder read on, and the next
\* message, of an unexpected kind, ended it with the protocol error.
C15_Witness ==
    /\ pushErrors = 1
    /\ ~rxAlive
    /\ Len(received) = 2
    /\ received[2].kind = "Other"
    /\ decTask = "err_protocol"

\* C16: a transport error returned by the inbound read ends the decoder
\* with the stream error: nothing is pushed for the failed read, and
\* afterwards the task reads nothing more (no retry) and pushes nothing.
C16_ReadErrorTerminates ==
    [][/\ \A m \in Inbound :
            (JustRead(m) /\ m.kind = "ReadError")
            => (decTask' = "err_stream" /\ pending' = None /\ queue' = queue)
       /\ (decTask = "err_stream")
            => /\ decTask' = "err_stream"
               /\ received' = received
               /\ pending' = None
               /\ Len(queue') <= Len(queue)]_vars

\* The decoder failed on a read error that followed a decoded update, on a
\* transport that is still connected.
C16_Witness ==
    /\ decTask = "err_stream"
    /\ Len(received) = 2
    /\ received[2].kind = "ReadError"
    /\ C8_Decodes(received[1])
    /\ open

\* C17 as stated, for the ping task: once the transport is closed, the next
\* ping send returns with an error and the task ends, so no further ping is
\* attempted on the closed transport.
C17_ControllerEndsOnClosedTransport ==
    [][(~open /\ id' # id) => (pingTask' # "loop")]_vars

C19_FullQueueDoesNotBlock ==
    (decTask = "push") => ENABLED DecoderPush

\* C20: an AccountUpdate owned by the token-2022 program whose buffer is a
\* valid record followed by trailing extension bytes is decoded from the
\* fixed prefix: one BalanceUpdate with is_native = FALSE and the mint and
\* amount of the prefix; the longer buffer is not treated as malformed.
C20_Token2022Extensions ==
    [][\A m \in Inbound :
          (/\ JustRead(m)
           /\ m.kind = "Account"
           /\ m.account.owner = SplToken2022
           /\ m.account.data.len > AccountLen
           /\ m.account.data.state \in {0, 1, 2})
          => /\ decTask' = "push"
             /\ pending' = <<[is_native |-> FALSE, pubkey |-> m.account.pubkey,
                              mint |-> <<m.account.data.mint>>,
                              amount |-> m.account.data.amount]>>
             /\ queue' = queue]_vars

\* A token-2022 update with trailing bytes was read and the consumer has
\* read its BalanceUpdate.
C20_Witness ==
    /\ Len(received) = 1
    /\ received[1].account.owner = SplToken2022
    /\ received[1].account.data.len > AccountLen
    /\ consumed = <<[is_native |-> FALSE, pubkey |-> received[1].account.pubkey,
                     mint |-> <<received[1].account.data.mint>>,
                     amount |-> received[1].account.data.amount]>>

\* The ping task's own state, and what the decoder and the consumer own.
PingView == <<outbound, id, pingTask, pingErrors>>

InboundView == <<decTask, pending, received, queue, rxAlive, consumed,
                 rxEnded, pushErrors>>

\* C21: the pings sent do not depend on inbound traffic, stated as the
\* unwinding conditions of that independence: once the tasks run, no step
\* that reads, decodes, pushes or consumes changes the ping task's state or
\* the outbound requests; whether the next ping is attempted depends on the
\* ping task's state alone (also after the decoder has terminated); and an
\* attempt computes its request from the counter alone.
C21_PingsIndependentOfInbound ==
    /\ [][(pingTask = "loop" /\ InboundView' # InboundView)
            => (PingView' = PingView)]_vars
    /\ [](ENABLED PingTick <=> (pingTask = "loop" /\ id < MaxPings))
    /\ [][(id' # id)
            => /\ InboundView' = InboundView
               /\ id' = id + 1
               /\ outbound' \in {outbound, Append(outbound, PingRequest(id + 1))}]_vars

\* Both pings were sent although two inbound messages were read and the
\* second one made the decoder panic.
C21_Witness ==
    /\ Len(PingsSent) = MaxPings
    /\ Len(received) = 2
    /\ decTask = "panicked"
    /\ consumed # <<>>

\* What the consumer observes after a clean end of a stream that carried no
\* update.
CleanEndView == <<<<>>, TRUE>>

\* C23 as stated: the consumer can tell an error termination from a clean
\* end of stream, so no termination by an error leaves the consumer with
\* the observation of a clean end.
C23_TerminalErrorExposed ==
    (decTask \in {"err_stream", "err_protocol", "panicked"})
        => (ConsumerView # CleanEndView)

\* C22 as stated: while the stream is open, the number of pings sent after
\* T seconds is floor(T / interval) plus or minus 1.
C22_SentCountWithinOne ==
    (pingTask = "loop" /\ open)
        => /\ Len(PingsSent) >= (elapsed \div PingInterval) - 1
           /\ Len(PingsSent) <= (elapsed \div PingInterval) + 1

\* C22, amended: after T seconds the number of ping attempts is
\* floor(T / interval) + 1, or floor(T / interval) at the instant a tick is
\* due and not yet served (the first tick completes at once); the number of
\* pings sent is the number of attempts less the failed sends, so it is
\* within one of floor(T / interval) when no send has failed.
C22_AttemptsFollowTicks ==
    (pingTask = "loop")
        => /\ id \in {elapsed \div PingInterval, (elapsed \div PingInterval) + 1}
           /\ (id = elapsed \div PingInterval) => (elapsed = PingInterval * id)
           /\ Len(PingsSent) = id - pingErrors
           /\ (pingErrors = 0)
                => /\ Len(PingsSent) >= (elapsed \div PingInterval) - 1
                   /\ Len(PingsSent) <= (elapsed \div PingInterval) + 1

\* Five seconds after the timer was made, on an open stream, two pings have
\* been attempted and one of them was sent.
C22_Witness ==
    /\ elapsed = 2 * PingInterval - 1
    /\ open
    /\ id = 2
    /\ pingErrors = 1
    /\ Len(PingsSent) = 1

\* C24 as stated: the value returned is exactly the history's signatures
\* whose block time is at least since_timestamp_sec, less the failed ones
\* when ignore_failed is set.
C24_ReturnsAllSince ==
    (sigState = "done")
        => (signatures = Retain(history, since_timestamp_sec, ignore_failed))

RECURSIVE Concat(_)
Concat(ss) == IF ss = <<>> THEN <<>> ELSE Head(ss) \o Concat(Tail(ss))

\* The pages received so far, in request order.
Pages == [k \in 1..Len(rpcLog) |-> rpcLog[k].page]

\* C25: with newest-first pages, each later one requested before the oldest
\* signature fetched so far, the value returned is the concatenation of the
\* pages in request order with the filtered entries removed; its block
\* times never increase and no signature occurs twice.
C25_DescendingNoDuplicates ==
    /\ (rpcLog # <<>>) => (rpcLog[1].before = None)
    /\ \A k \in 2..Len(rpcLog) :
          rpcLog[k].before = Some(Last(Concat(SubSeq(Pages, 1, k - 1))).signature)
    /\ (sigState = "loop") => (signatures = Concat(Pages))
    /\ (sigState = "done")
          => /\ signatures = Retain(Concat(Pages), since_timestamp_sec, ignore_failed)
             /\ \A i \in 1..(Len(signatures) - 1) :
                   signatures[i].block_time >= signatures[i + 1].block_time
             /\ \A i, j \in 1..Len(signatures) :
                   (signatures[i].signature = signatures[j].signature) => (i = j)

\* Two pages were fetched, an entry was filtered out, and two signatures
\* are returned.
C25_Witness ==
    /\ sigState = "done"
    /\ Len(rpcLog) = 2
    /\ rpcLog[2].page # <<>>
    /\ Len(signatures) = 2
    /\ Len(Concat(Pages)) = 3

\* C26 as stated: the loop never re-issues the request it has just made,
\* with the same `before` signature.
C26_NoRepeatedRequest ==
    [][(sigState = "loop" /\ Len(rpcLog') > Len(rpcLog))
        => (Last(rpcLog').before # Last(rpcLog).before)]_vars

\* C27 as stated: confirm_bundle_id returns Ok only if a poll observed the
\* status Landed; every other way of leaving the polling loop returns an
\* error.
C27_OkOnlyIfLanded ==
    (bundleState = "ok") => (exitCause = "landed")

\* C28: in the example, a failed ping send, a read error or a message of an
\* unexpected kind makes the joined call return an error; after the return
\* no ping is sent and no inbound message is processed; and the pings sent
\* carry the ids 1, 2, 3, ... without a gap.
C28_ExampleJoinsActivities ==
    /\ [][(call = "join" /\ id' # id /\ outbound' = outbound)
            => (call' = "err")]_vars
    /\ [][\A m \in Inbound :
            (call = "join" /\ JustRead(m) /\ m.kind \in {"ReadError", "Other"})
            => (call' = "err")]_vars
    /\ [][(call = "err")
            => /\ call' = "err"
               /\ outbound' = outbound
               /\ id' = id
               /\ received' = received]_vars
    /\ [](\A k \in 1..Len(PingsSent) : PingsSent[k].id = k)
    /\ []((call = "join") => (id = Len(PingsSent)))

\* A ping was sent, a message was processed, and the failure of the second
\* ping send ended the call while the stream was still readable.
C28_Witness ==
    /\ call = "err"
    /\ id = 2
    /\ Len(PingsSent) = 1
    /\ Len(received) = 1
    /\ received[1].kind = "Pong"

\* What holds of the batches in every state: they are the consecutive index
\* ranges [0,b), [b,2b), ... of at most batch_size signatures, a batch
\* starts only when no request of the previous one is outstanding, no index
\* is requested twice, the transactions collected are the successfully
\* fetched ones in input order, and on return every index was requested.
BatchesConsecutive ==
    /\ txState \in {"idle", "loop", "join", "done"}
    /\ (batches # <<>>) => (batches[1].lo = 0)
    /\ \A k \in 1..Len(batches) :
          /\ batches[k].hi = Min(batches[k].lo + batch_size, Len(txSignatures))
          /\ batches[k].hi - batches[k].lo <= batch_size
          /\ (k < Len(batches)) => (batches[k + 1].lo = batches[k].hi)
    /\ \A k, l \in 1..Len(batches) :
          (k # l) => ((batches[k].lo..(batches[k].hi - 1))
                        \cap (batches[l].lo..(batches[l].hi - 1)) = {})
    /\ (txState = "loop") => (inflight = {})
    /\ (txState = "join")
          => /\ inflight \subseteq Last(batches).lo..(Last(batches).hi - 1)
             /\ transactions = OkTxs(txSignatures, fetched, 0, current_idx_min)
    /\ (txState = "done")
          => /\ Last(batches).hi = Len(txSignatures)
             /\ DOMAIN fetched = 0..(Len(txSignatures) - 1)
             /\ transactions = OkTxs(txSignatures, fetched, 0, Len(txSignatures))

\* C29 as stated: every signature of the input is requested exactly once,
\* in consecutive batches that cover the input in order, and the result
\* holds the fetched transactions in input order. Covering a non-empty
\* input means that every batch issued requests at least one signature.
C29_BatchesCoverInput ==
    /\ BatchesConsecutive
    /\ \A k \in 1..Len(batches) :
          (Len(txSignatures) > 0) => (batches[k].hi > batches[k].lo)

\* C30 as stated: the loop terminates for every n and every batch_size, so
\* every pass of it either returns or moves current_idx_max forward.
C30_EveryBatchAdvances ==
    [][(txState = "join" /\ txState' = "loop")
        => (current_idx_max' > current_idx_max)]_vars

\* C33: an AccountUpdate without account payload produces no BalanceUpdate
\* and the decoder reads on; a message without any update payload aborts
\* the decoder, after which nothing is read or pushed, and the output queue
\* is closed: once drained, the consumer reads its end.
C33_MissingPayloads ==
    /\ [][\A m \in Inbound :
            (JustRead(m) /\ m.kind = "AccountNone")
            => (decTask' = "read" /\ pending' = None /\ queue' = queue)]_vars
    /\ [][\A m \in Inbound :
            (JustRead(m) /\ m.kind = "EmptyOneof")
            => (decTask' = "panicked" /\ pending' = None /\ queue' = queue)]_vars
    /\ [][(decTask = "panicked")
            => /\ decTask' = "panicked"
               /\ received' = received
               /\ pending' = None
               /\ Len(queue') <= Len(queue)]_vars
    /\ []((decTask = "panicked" /\ rxAlive /\ ~rxEnded /\ queue = <<>>)
            => ENABLED ConsumerRecvEnd)

\* An AccountUpdate without payload was read and produced nothing, then a
\* message without update payload aborted the decoder; the consumer has
\* read the end of the queue without receiving any update.
C33_Witness ==
    /\ Len(received) = 2
    /\ received[1].kind = "AccountNone"
    /\ received[2].kind = "EmptyOneof"
    /\ decTask = "panicked"
    /\ consumed = <<>>
    /\ rxEnded
\* ---------------------------------------------------------------------
\* C32: one status query makes at most two HTTP attempts. A successful
\* attempt returns its body at once; the 3 s sleep happens only after a
\* failed first attempt and is followed by the second attempt; after the
\* second failure the query fails and so does the confirmation; a query
\* under way always ends, with a body or with that failure.
C32_StatusQueryDone == bundleState \in {"parse", "err"}

C32_AtMostTwoAttempts ==
    /\ [](attempts <= 2)
    /\ [](bundleState = "parse" => attempts \in 1..2 /\ retry_count = attempts)
    /\ [](bundleState = "retry_sleep" => attempts = 1 /\ exitCause = "-")
    /\ [][(bundleState = "status" /\ bundleState' # "status")
            => /\ attempts' = attempts + 1
               /\ bundleState' \in {"parse", "retry_sleep", "err"}
               /\ (bundleState' = "retry_sleep") => (attempts' = 1)
               /\ (bundleState' = "err")
                    => (attempts' = 2 /\ exitCause' = "status_request_failed")]_vars
    /\ [][(bundleState = "retry_sleep" /\ bundleState' # "retry_sleep")
            => (bundleState' = "status" /\ attempts' = attempts)]_vars
    /\ [](exitCause = "status_request_failed"
            => (bundleState = "err" /\ attempts = 2))
    /\ (bundleState = "status") ~> C32_StatusQueryDone

\* The second poll's status query has failed twice and the confirmation
\* has ended with that error.
C32_Witness ==
    /\ exitCause = "status_request_failed"
    /\ bundleState = "err"
    /\ attempts = 2
    /\ polls = 2
    /\ lastResponse = "Pending"

\* ---------------------------------------------------------------------
\* C31: while the status is 'Pending' or 'Invalid' the confirmation keeps
\* polling: one status query per pass when no request fails, then the
\* sleep of poll_period, then the next pass. A pass whose block height is
\* strictly greater than last_valid_block_height ends the call, with
\* 'bundle expired' when the height request succeeds, and makes no status
\* query; a pass with a height up to and including last_valid_block_height
\* can query the status and never reports expiry. Once the block height
\* exceeds last_valid_block_height the call eventually terminates.
C31_Terminated == bundleState \in {"ok", "err", "panicked"}

C31_PollsUntilExpired ==
    /\ [][(exitCause' = "expired" /\ exitCause # "expired")
            => /\ bundleState = "height"
               /\ block_height > last_valid_block_height
               /\ bundleState' = "err"
               /\ attempts' = attempts
               /\ polls' = polls + 1]_vars
    /\ [][(bundleState = "height" /\ bundleState' # "height"
             /\ block_height > last_valid_block_height)
            => /\ bundleState' = "err"
               /\ exitCause' \in {"expired", "height_request_failed"}
               /\ attempts' = attempts]_vars
    /\ [][(bundleState = "height" /\ bundleState' # "height"
             /\ block_height <= last_valid_block_height)
            => /\ exitCause' # "expired"
               /\ bundleState' \in {"status", "err"}]_vars
    /\ []((bundleState = "height" /\ polls < MaxPolls
             /\ block_height <= last_valid_block_height)
            => ENABLED (GetBlockHeight /\ bundleState' = "status"))
    /\ [][(bundleState = "parse" /\ bundleState' # "parse"
             /\ lastResponse' \in {"Pending", "Invalid"})
            => (bundleState' = "sleep" /\ exitCause' = "-")]_vars
    /\ []((bundleState = "sleep" /\ retry_count = 1) => attempts = 1)
    /\ [][(bundleState = "sleep" /\ bundleState' # "sleep")
            => (bundleState' = "height" /\ polls' = polls)]_vars
    /\ (block_height > last_valid_block_height) ~> C31_Terminated

\* The first pass ran at a height equal to last_valid_block_height and saw
\* 'Pending' after one status request; a block later the second pass ended
\* the call with 'bundle expired'.
C31_Witness ==
    /\ last_valid_block_height = 0
    /\ block_height = 1
    /\ lastResponse = "Pending"
    /\ attempts = 1
    /\ polls = 2
    /\ bundleState = "err"
    /\ exitCause = "expired"

====
